---- MODULE Spec2Model ----
(***************************************************************************)
(* Model of the multi-agent coordination orchestrator of the weather       *)
(* insights advisor: python_src/orchestrator/agent_orchestrator.py         *)
(* (AgentOrchestrator) and python_src/agents/root_agent.py (RootAgent).    *)
(*                                                                         *)
(* The program runs on one asyncio event loop.  A coroutine runs without   *)
(* interruption until it awaits something that is not yet done; `running`  *)
(* names the call that holds the event loop (0: the loop is free).  An     *)
(* action is one block of code between two suspension points, or one       *)
(* try/except block of such a stretch.                                     *)
(***************************************************************************)
EXTENDS Integers, Sequences, FiniteSets, TLC

(***************************************************************************)
(* Bounds                                                                  *)
(***************************************************************************)
MaxRequests == 3      \* request ids generated in one behaviour
MaxRoles == 3         \* length of a role list handed to coordinate_agents

\* the calls of the orchestrator API that can be in flight at once
Procs == {1, 2}

(***************************************************************************)
(* Roles and the registry                                                  *)
(***************************************************************************)
\* AgentOrchestrator.__init__: self.agent_types, a dict in insertion order
AgentOrder == <<"root", "data", "forecast", "insights">>
RegisteredRoles == {AgentOrder[i] : i \in 1..Len(AgentOrder)}
\* a role name no agent class is registered under
UnknownRole == "alerts"
\* the role names a caller of coordinate_agents may put in its list
CallableRoles == {"data", "insights", UnknownRole}

AgentName(role) ==
    CASE role = "root" -> "root-agent"
      [] role = "data" -> "data-agent"
      [] role = "forecast" -> "forecast-agent"
      [] role = "insights" -> "insights-agent"
      [] OTHER -> "no-agent"

(***************************************************************************)
(* Queries.  A query is known by the keyword classes its lower-cased text  *)
(* contains (RootAgent.analyze_query reads nothing else), and by whether   *)
(* it is a str at all: a value without .lower() makes analyze_query raise. *)
(***************************************************************************)
Query(isStr, em, fc, da, loc) ==
    [is_str |-> isStr, emergency |-> em, forecast |-> fc, data |-> da, location |-> loc]

QTemperature == Query(TRUE, FALSE, FALSE, FALSE, FALSE)  \* "what's the temperature"
QEvacuation == Query(TRUE, TRUE, FALSE, FALSE, FALSE)    \* "evacuation hurricane flood"
QForecastCity == Query(TRUE, FALSE, TRUE, FALSE, TRUE)   \* "forecast for the city"
QHurricaneData == Query(TRUE, TRUE, FALSE, TRUE, FALSE)  \* "hurricane records"
QNotStr == Query(FALSE, FALSE, FALSE, FALSE, FALSE)      \* ["not", "a", "string"]
NoQuery == Query(TRUE, FALSE, FALSE, FALSE, FALSE)

Queries == {QTemperature, QEvacuation, QForecastCity, QHurricaneData, QNotStr}

\* the context argument: None, a dict, or a value that is not a mapping
Contexts == {"none", "mapping", "not_mapping"}

(***************************************************************************)
(* Exceptions                                                              *)
(***************************************************************************)
Exc(type, message) == [type |-> type, message |-> message]
NoExc == Exc("", <<>>)
NotInitializedError == Exc("RuntimeError", <<"Agent Orchestrator not initialized">>)
NotAMappingError == Exc("TypeError", <<"object is not a mapping">>)
NoLowerError == Exc("AttributeError", <<"object has no attribute 'lower'">>)
SummaryTypeError == Exc("TypeError", <<"can only concatenate str to str">>)
KeyErrorOf(key) == Exc("KeyError", <<key>>)
ResponderError(role) == Exc("Exception", <<role, "responder failed">>)

(***************************************************************************)
(* Responder results                                                       *)
(***************************************************************************)
\* The value stored under 'details': a list (items are its elements), or one
\* mapping (items are its keys, whole stands for the mapping as one value).
NoDetails == [is_list |-> TRUE, items |-> <<>>, whole |-> ""]
ListDetails(items) == [is_list |-> TRUE, items |-> items, whole |-> ""]
MappingDetails(whole, keys) == [is_list |-> FALSE, items |-> keys, whole |-> whole]

\* A payload dict; keys is the set of keys the dict has, a field whose key is
\* absent holds the empty value.
NoData == [keys |-> {}, summary |-> <<>>, summary_is_str |-> TRUE,
           details |-> NoDetails, recommendations |-> <<>>, sources |-> <<>>,
           emergency_actions |-> <<>>]

\* the payload a responder hands to generate_success_response: the data
\* responder reports a list of records, the forecast and insights responders
\* one mapping; the forecast payload has no recommendations
ResponderData(role, wellFormed) ==
    [keys |-> CASE role = "data" -> {"summary", "details", "recommendations", "sources"}
                [] role = "forecast" -> {"summary", "details", "emergency_actions", "sources"}
                [] OTHER -> {"summary", "details", "recommendations",
                             "emergency_actions", "sources"},
     summary |-> <<role>>, summary_is_str |-> wellFormed,
     details |-> IF role = "data" THEN ListDetails(<<"record 1", "record 2">>)
                 ELSE MappingDetails(role, <<"level", "factors">>),
     recommendations |-> IF role = "forecast" THEN <<>> ELSE <<"prepare", role>>,
     sources |-> <<AgentName(role)>>,
     emergency_actions |-> IF role = "data" THEN <<>> ELSE <<role>>]

\* a payload with neither summary nor details: a cached source list
SparseData ==
    [NoData EXCEPT !.keys = {"sources"}, !.sources = <<"cache", "cache">>]

\* BaseAgent.generate_success_response
generate_success_response(role, data) ==
    [success |-> TRUE, error |-> FALSE, message |-> <<>>,
     agent |-> AgentName(role), data |-> data]

\* BaseAgent.generate_error_response
generate_error_response(role, exc) ==
    [success |-> FALSE, error |-> TRUE,
     message |-> <<AgentName(role), " encountered an error: ">> \o exc.message,
     agent |-> AgentName(role), data |-> NoData]

\* the dict coordinate_agents builds for an invocation that raised
FailureResponse(exc) ==
    [success |-> FALSE, error |-> TRUE, message |-> exc.message,
     agent |-> "", data |-> NoData]

\* Outcomes of one responder invocation (BaseAgent.process_request):
\*   ok     returns a success response with a well-formed payload
\*   bad    returns a success response whose summary is not a str
\*   err    returns the responder's own error response
\*   raise  raises
Outcomes == {"ok", "bad", "err", "raise"}
Settled(t) == t.st /= "running"

\* what `await agent.process_request(query, context)` returns
process_request(role, st) ==
    CASE st = "ok" -> generate_success_response(role, ResponderData(role, TRUE))
      [] st = "bad" -> generate_success_response(role, ResponderData(role, FALSE))
      [] OTHER -> generate_error_response(role, Exc("Exception", <<"upstream">>))

(***************************************************************************)
(* Router: RootAgent.analyze_query and determine_required_agents           *)
(***************************************************************************)
\* variant: the keyword groups are tested with elif, the first match decides
analyze_query_first_match(q) ==
    LET a0 == [type |-> "general", urgency |-> "medium",
               location_based |-> FALSE, time_sensitive |-> FALSE]
        a1 == IF q.emergency
              THEN [a0 EXCEPT !.urgency = "high", !.type = "emergency"]
              ELSE IF q.forecast
              THEN [a0 EXCEPT !.type = "forecast", !.time_sensitive = TRUE]
              ELSE IF q.data THEN [a0 EXCEPT !.type = "data_analysis"]
              ELSE a0
        a4 == IF q.location THEN [a1 EXCEPT !.location_based = TRUE] ELSE a1
    IN  IF q.is_str
        THEN [raised |-> FALSE, exc |-> NoExc, value |-> a4]
        ELSE [raised |-> TRUE, exc |-> NoLowerError, value |-> a0]

analyze_query(q) ==
    LET a0 == [type |-> "general", urgency |-> "medium",
               location_based |-> FALSE, time_sensitive |-> FALSE]
        a1 == IF q.emergency
              THEN [a0 EXCEPT !.urgency = "high", !.type = "emergency"] ELSE a0
        a2 == IF q.forecast
              THEN [a1 EXCEPT !.type = "forecast", !.time_sensitive = TRUE] ELSE a1
        a3 == IF q.data THEN [a2 EXCEPT !.type = "data_analysis"] ELSE a2
        a4 == IF q.location THEN [a3 EXCEPT !.location_based = TRUE] ELSE a3
    IN  IF q.is_str
        THEN [raised |-> FALSE, exc |-> NoExc, value |-> a4]
        ELSE [raised |-> TRUE, exc |-> NoLowerError, value |-> a0]

\* variant: a forecast query always gets the data role as well
determine_required_agents_forecast_with_data(analysis) ==
    CASE analysis.type = "emergency" -> <<"forecast", "data", "insights">>
      [] analysis.type = "forecast" -> <<"forecast", "data">>
      [] analysis.type = "data_analysis" -> <<"data", "insights">>
      [] OTHER -> <<"forecast">>

determine_required_agents(analysis) ==
    CASE analysis.type = "emergency" -> <<"forecast", "data", "insights">>
      [] analysis.type = "forecast" ->
            <<"forecast">> \o (IF analysis.location_based THEN <<"data">> ELSE <<>>)
      [] analysis.type = "data_analysis" -> <<"data", "insights">>
      [] OTHER -> <<"forecast">>

(***************************************************************************)
(* Coordinator: the pieces of AgentOrchestrator.coordinate_agents          *)
(***************************************************************************)
NoEntry == [agent_type |-> "", response |-> FailureResponse(NoExc)]

\* variant: the registry check of the loop is missing
CreateTasksNoSkip(agent_types, registry) ==
    [i \in 1..Len(agent_types) |-> [role |-> agent_types[i], st |-> "running"]]

\* the loop that builds `tasks`: one coroutine per role found in the registry
RECURSIVE CreateTasks(_, _)
CreateTasks(agent_types, registry) ==
    IF agent_types = <<>> THEN <<>>
    ELSE LET rest == CreateTasks(Tail(agent_types), registry)
         IN  IF Head(agent_types) \notin registry
             THEN rest
             ELSE <<[role |-> Head(agent_types), st |-> "running"]>> \o rest

\* _call_agent_async: the dict one settled invocation returns, or its exception
call_agent_async(t) ==
    IF t.st = "raise"
    THEN [is_exc |-> TRUE, exc |-> ResponderError(t.role), value |-> NoEntry]
    ELSE [is_exc |-> FALSE, exc |-> NoExc,
          value |-> [agent_type |-> t.role, response |-> process_request(t.role, t.st)]]

\* variant: the results are collected as the tasks complete (as_completed)
gather_completion_order(tasks, completion) ==
    [ready |-> \A i \in 1..Len(tasks) : Settled(tasks[i]),
     raised |-> FALSE, exc |-> NoExc,
     list |-> [i \in 1..Len(tasks) |->
                 call_agent_async(tasks[IF i <= Len(completion) THEN completion[i] ELSE i])]]

\* variant: return_exceptions is left at its default, the first exception of
\* a task is raised to the awaiting coordinator at once
gather_fail_fast(tasks, completion) ==
    LET failed == {i \in 1..Len(tasks) : tasks[i].st = "raise"}
    IN  [ready |-> failed /= {} \/ \A i \in 1..Len(tasks) : Settled(tasks[i]),
         raised |-> failed /= {},
         exc |-> IF failed = {} THEN NoExc
                 ELSE ResponderError(tasks[CHOOSE i \in failed : TRUE].role),
         list |-> [i \in 1..Len(tasks) |-> call_agent_async(tasks[i])]]

\* variant: the coordinator waits for the first task only (FIRST_COMPLETED)
gather_first_completed(tasks, completion) ==
    [ready |-> tasks = <<>> \/ \E i \in 1..Len(tasks) : Settled(tasks[i]),
     raised |-> FALSE, exc |-> NoExc,
     list |-> [i \in 1..Len(tasks) |-> call_agent_async(tasks[i])]]

\* variant: the coordinator waits until every invocation has succeeded, as if
\* a failed invocation were to be retried
gather_waits_for_retry(tasks, completion) ==
    [ready |-> \A i \in 1..Len(tasks) : Settled(tasks[i]) /\ tasks[i].st /= "raise",
     raised |-> FALSE, exc |-> NoExc,
     list |-> [i \in 1..Len(tasks) |-> call_agent_async(tasks[i])]]

\* asyncio.gather(*tasks, return_exceptions=True): done when every task has
\* settled; the list is in the order of `tasks`, whatever the order
\* (`completion`) in which the tasks settled.
gather(tasks, completion) ==
    [ready |-> \A i \in 1..Len(tasks) : Settled(tasks[i]),
     raised |-> FALSE, exc |-> NoExc,
     list |-> [i \in 1..Len(tasks) |-> call_agent_async(tasks[i])]]

\* the loop over enumerate(agent_responses)
process_responses(agent_types, agent_responses) ==
    [i \in 1..Len(agent_responses) |->
        IF agent_responses[i].is_exc
        THEN [agent_type |-> agent_types[i],
              response |-> FailureResponse(agent_responses[i].exc)]
        ELSE agent_responses[i].value]

(***************************************************************************)
(* Aggregator: RootAgent.synthesize_response                               *)
(***************************************************************************)
Contributes(entry) == entry.response.success

FallbackActions == <<"Monitor weather conditions closely",
                     "Review emergency preparedness plans",
                     "Stay informed through official channels">>

RECURSIVE CollectActions(_)
CollectActions(responses) ==
    IF responses = <<>> THEN <<>>
    ELSE (IF Contributes(Head(responses))
          THEN Head(responses).response.data.emergency_actions ELSE <<>>)
         \o CollectActions(Tail(responses))

\* variant: no fallback, the collected actions are returned as they are
generate_emergency_actions_no_fallback(responses) == CollectActions(responses)

generate_emergency_actions(responses) ==
    IF CollectActions(responses) /= <<>> THEN CollectActions(responses)
    ELSE FallbackActions

\* variant: a failed entry's message is reported in the summary
RECURSIVE MergeSummaryReportsFailures(_)
MergeSummaryReportsFailures(responses) ==
    IF responses = <<>> THEN <<>>
    ELSE (IF Contributes(Head(responses))
          THEN Head(responses).response.data.summary \o <<" ">>
          ELSE Head(responses).response.message \o <<" ">>)
         \o MergeSummaryReportsFailures(Tail(responses))

\* synthesis['summary'] += data['summary'] + ' '
RECURSIVE MergeSummary(_)
MergeSummary(responses) ==
    IF responses = <<>> THEN <<>>
    ELSE (IF Contributes(Head(responses))
             /\ "summary" \in Head(responses).response.data.keys
          THEN Head(responses).response.data.summary \o <<" ">> ELSE <<>>)
         \o MergeSummary(Tail(responses))

\* variant: details are always added with extend
RECURSIVE MergeDetailsExtendOnly(_)
MergeDetailsExtendOnly(responses) ==
    IF responses = <<>> THEN <<>>
    ELSE (IF Contributes(Head(responses))
          THEN Head(responses).response.data.details.items ELSE <<>>)
         \o MergeDetailsExtendOnly(Tail(responses))

\* a list-valued details is extended into the result, any other value is
\* appended as one element
RECURSIVE MergeDetails(_)
MergeDetails(responses) ==
    IF responses = <<>> THEN <<>>
    ELSE (IF Contributes(Head(responses))
             /\ "details" \in Head(responses).response.data.keys
          THEN LET details == Head(responses).response.data.details
               IN  IF details.is_list THEN details.items ELSE <<details.whole>>
          ELSE <<>>)
         \o MergeDetails(Tail(responses))

RECURSIVE MergeRecommendations(_)
MergeRecommendations(responses) ==
    IF responses = <<>> THEN <<>>
    ELSE (IF Contributes(Head(responses))
          THEN Head(responses).response.data.recommendations ELSE <<>>)
         \o MergeRecommendations(Tail(responses))

\* variant: each payload's sources are put in front of those collected so far
RECURSIVE MergeSourcesInFront(_)
MergeSourcesInFront(responses) ==
    IF responses = <<>> THEN <<>>
    ELSE MergeSourcesInFront(Tail(responses))
         \o (IF Contributes(Head(responses))
             THEN Head(responses).response.data.sources ELSE <<>>)

RECURSIVE MergeSources(_)
MergeSources(responses) ==
    IF responses = <<>> THEN <<>>
    ELSE (IF Contributes(Head(responses))
          THEN Head(responses).response.data.sources ELSE <<>>)
         \o MergeSources(Tail(responses))

\* the 'alert' and 'immediate_actions' keys exist only when urgency is high:
\* alert FALSE and immediate_actions <<>> stand for the absent keys
NoSynthesis == [summary |-> <<>>, details |-> <<>>, recommendations |-> <<>>,
                sources |-> <<>>, urgency |-> "medium",
                alert |-> FALSE, immediate_actions |-> <<>>]

\* variant: the alert is raised only when a responder contributed
synthesize_response_alert_needs_results(agent_responses, analysis) ==
    [raised |-> FALSE, exc |-> NoExc,
     value |-> [summary |-> MergeSummary(agent_responses),
                details |-> MergeDetails(agent_responses),
                recommendations |-> MergeRecommendations(agent_responses),
                sources |-> MergeSources(agent_responses),
                urgency |-> analysis.urgency,
                alert |-> (analysis.urgency = "high" /\ agent_responses /= <<>>),
                immediate_actions |->
                   IF analysis.urgency = "high" /\ agent_responses /= <<>>
                   THEN generate_emergency_actions(agent_responses)
                   ELSE <<>>]]

\* variant: the urgency is raised when a result carries emergency actions
synthesize_response_urgency_from_results(agent_responses, analysis) ==
    LET urgency == IF CollectActions(agent_responses) /= <<>>
                   THEN "high" ELSE analysis.urgency
    IN  [raised |-> FALSE, exc |-> NoExc,
         value |-> [summary |-> MergeSummary(agent_responses),
                    details |-> MergeDetails(agent_responses),
                    recommendations |-> MergeRecommendations(agent_responses),
                    sources |-> MergeSources(agent_responses),
                    urgency |-> urgency,
                    alert |-> (urgency = "high"),
                    immediate_actions |->
                       IF urgency = "high"
                       THEN generate_emergency_actions(agent_responses)
                       ELSE <<>>]]

\* raises when a contributing payload's summary cannot be concatenated
synthesize_response(agent_responses, analysis) ==
    IF \E i \in 1..Len(agent_responses) :
          /\ Contributes(agent_responses[i])
          /\ "summary" \in agent_responses[i].response.data.keys
          /\ ~agent_responses[i].response.data.summary_is_str
    THEN [raised |-> TRUE, exc |-> SummaryTypeError, value |-> NoSynthesis]
    ELSE [raised |-> FALSE, exc |-> NoExc,
          value |-> [summary |-> MergeSummary(agent_responses),
                     details |-> MergeDetails(agent_responses),
                     recommendations |-> MergeRecommendations(agent_responses),
                     sources |-> MergeSources(agent_responses),
                     urgency |-> analysis.urgency,
                     alert |-> (analysis.urgency = "high"),
                     immediate_actions |->
                        IF analysis.urgency = "high"
                        THEN generate_emergency_actions(agent_responses)
                        ELSE <<>>]]

\* what RootAgent.process_request returns to process_user_query
RootSuccess(synthesis) ==
    [success |-> TRUE, error |-> FALSE, message |-> <<>>,
     agent |-> AgentName("root"), synthesis |-> synthesis]
RootError(exc) ==
    [success |-> FALSE, error |-> TRUE,
     message |-> <<AgentName("root"), " encountered an error: ">> \o exc.message,
     agent |-> AgentName("root"), synthesis |-> NoSynthesis]
NoResponse == RootError(NoExc)

(***************************************************************************)
(* Envelopes: _format_response and _format_error_response                  *)
(***************************************************************************)
NoError == [message |-> <<>>, type |-> ""]
format_response(response, request_id) ==
    [request_id |-> request_id, status |-> "success", data |-> response,
     error |-> NoError]
format_error_response(exc, request_id) ==
    [request_id |-> request_id, status |-> "error", data |-> NoResponse,
     error |-> [message |-> exc.message, type |-> exc.type]]
NoEnvelope == [request_id |-> 0, status |-> "", data |-> NoResponse, error |-> NoError]

(***************************************************************************)
(* State                                                                   *)
(***************************************************************************)
VARIABLES
    initialized,       \* AgentOrchestrator.initialized
    agents,            \* keys of AgentOrchestrator.agents
    active_requests,   \* AgentOrchestrator.active_requests: request_id -> record
    request_history,   \* AgentOrchestrator.request_history
    next_id,           \* number of request ids handed out by _generate_request_id
    running,           \* the call that holds the event loop, 0 when it is free
    call               \* per call in flight: its operation, position and locals

vars == <<initialized, agents, active_requests, request_history, next_id, running, call>>

\* what the introspection operations report
NoReport == [initialized |-> FALSE, active_requests |-> 0, total_requests |-> 0,
             agents |-> {}, status |-> ""]

NoResult == [kind |-> "", envelope |-> NoEnvelope, exc |-> NoExc, priority |-> "",
             entries |-> <<>>, report |-> NoReport]
Raised(exc) == [NoResult EXCEPT !.kind = "raised", !.exc = exc]
Envelope(env) == [NoResult EXCEPT !.kind = "envelope", !.envelope = env]
ReturnedList == [NoResult EXCEPT !.kind = "list"]
EmergencyResponse ==
    [NoResult EXCEPT !.kind = "emergency_response", !.priority = "critical"]
ReturnedHistory(entries) == [NoResult EXCEPT !.kind = "history", !.entries = entries]
Report(kind, report) == [NoResult EXCEPT !.kind = kind, !.report = report]

NoAnalysis == analyze_query(NoQuery).value

Idle ==
    [op |-> "idle", pc |-> "idle", query |-> NoQuery, context |-> "mapping",
     request_id |-> 0, analysis |-> NoAnalysis, agent_types |-> <<>>,
     tasks |-> <<>>, completion |-> <<>>, coordinated |-> FALSE,
     responses |-> <<>>, response |-> NoResponse, pipeline_exc |-> FALSE,
     exc |-> NoExc, correlations |-> 0, limit |-> 0, result |-> NoResult]

EmptyMap == [k \in {} |-> 0]

\* the dict stored under active_requests[request_id]; of the stored query,
\* context and response only what a later operation reads is kept: whether a
\* response is stored and whether it is the root agent's success response
RequestRecord(status) ==
    [status |-> status, has_duration |-> FALSE, has_response |-> FALSE,
     response_success |-> FALSE, error |-> <<>>]

\* variant: the id has no random part and two calls get the same id
generate_request_id_collides(n) == 1

\* _generate_request_id: timestamp and random suffix, a fresh id at each call;
\* n is the number of ids handed out so far
generate_request_id(n) == n + 1

\* variant: the entry is not recorded
append_history_dropped(history, entry) == history

\* request_history.append(...)
append_history(history, entry) == Append(history, entry)

Init ==
    /\ initialized = FALSE
    /\ agents = {}
    /\ active_requests = EmptyMap
    /\ request_history = <<>>
    /\ next_id = 0
    /\ running = 0
    /\ call = [p \in Procs |-> Idle]

(***************************************************************************)
(* AgentOrchestrator.initialize: the responders are constructed and        *)
(* initialized in the order of agent_types; failAt = 0 when none raises,   *)
(* else the position of the responder whose construction or initialize     *)
(* raises.                                                                 *)
(***************************************************************************)
initialize(failAt) ==
    /\ running = 0
    /\ agents' = agents \cup
          {AgentOrder[i] : i \in 1..(IF failAt = 0 THEN Len(AgentOrder) ELSE failAt - 1)}
    /\ initialized' = IF failAt = 0 THEN TRUE ELSE initialized
    /\ UNCHANGED <<active_requests, request_history, next_id, running, call>>

(***************************************************************************)
(* AgentOrchestrator.shutdown                                              *)
(***************************************************************************)
shutdown ==
    /\ running = 0
    /\ agents' = {}
    /\ active_requests' = EmptyMap
    /\ initialized' = FALSE
    /\ UNCHANGED <<request_history, next_id, running, call>>

(***************************************************************************)
(* AgentOrchestrator.shutdown with its suspension point.  The loop awaits  *)
(* the shutdown of each responder in the order of the registry; an         *)
(* exception of a responder's shutdown is logged and the loop goes on.     *)
(* Only the forecast responder's shutdown waits for something (it closes   *)
(* its HTTP client): the function is suspended there, and the action       *)
(* `shutdown` above is this function when nothing else runs meanwhile.     *)
(* call[p].agent_types holds the keys the loop iterates over and           *)
(* call[p].tasks the shutdown calls made so far.                           *)
(***************************************************************************)
ReturnedNone == [NoResult EXCEPT !.kind = "none"]

DictChangedSizeError == Exc("RuntimeError", <<"dictionary changed size during iteration">>)

\* the keys of self.agents in the order of the dict: the order of insertion
RegistryOrder(registry) ==
    LET Registered(role) == role \in registry
    IN  SelectSeq(AgentOrder, Registered)

\* the calls `await agent.shutdown()` for roles; those in raising raise
ShutdownCalls(roles, raising) ==
    [i \in 1..Len(roles) |->
        [role |-> roles[i], st |-> IF roles[i] \in raising THEN "raise" ELSE "ok"]]

\* the roles of items up to and including the forecast responder, all of
\* them when it is not among them
UpToForecast(roles) ==
    IF \E i \in 1..Len(roles) : roles[i] = "forecast"
    THEN SubSeq(roles, 1, CHOOSE i \in 1..Len(roles) : roles[i] = "forecast")
    ELSE roles

\* lines 286-292, and 296-300 when the loop ends without a suspension
shutdown_begins(p, raising) ==
    LET order == RegistryOrder(agents)
        first == UpToForecast(order)
        suspends == first /= <<>> /\ first[Len(first)] = "forecast"
        calls == ShutdownCalls(first, raising)
        c == [Idle EXCEPT !.op = "shutdown", !.agent_types = order]
    IN  /\ running = 0
        /\ call[p].op = "idle"
        /\ raising \subseteq agents \ {"forecast"}
        /\ IF suspends
           THEN /\ call' = [call EXCEPT ![p] =
                      [c EXCEPT !.pc = "closing",
                                !.tasks = [calls EXCEPT ![Len(first)].st = "running"]]]
                /\ UNCHANGED <<initialized, agents, active_requests>>
           ELSE /\ call' = [call EXCEPT ![p] =
                      [c EXCEPT !.pc = "done", !.tasks = calls,
                                !.result = ReturnedNone]]
                /\ agents' = {}
                /\ active_requests' = EmptyMap
                /\ initialized' = FALSE
        /\ UNCHANGED <<request_history, next_id, running>>

\* variant: the loop body has no try, an exception of a responder's shutdown
\* leaves the function
shutdown_resumes_unguarded(p, outcome, raising) ==
    LET c == call[p]
        done == Len(c.tasks)
        settled == [c.tasks EXCEPT ![done].st = outcome]
        rest == SubSeq(c.agent_types, done + 1, Len(c.agent_types))
    IN  /\ running = 0
        /\ c.op = "shutdown" /\ c.pc = "closing"
        /\ raising \subseteq {rest[i] : i \in 1..Len(rest)}
        /\ IF outcome = "raise"
           THEN /\ call' = [call EXCEPT ![p] =
                      [c EXCEPT !.pc = "done", !.tasks = settled,
                                !.result = Raised(ResponderError("forecast"))]]
                /\ UNCHANGED <<initialized, agents, active_requests>>
           ELSE /\ call' = [call EXCEPT ![p] =
                      [c EXCEPT !.pc = "done",
                                !.tasks = settled \o ShutdownCalls(rest, {}),
                                !.result = ReturnedNone]]
                /\ agents' = {}
                /\ active_requests' = EmptyMap
                /\ initialized' = FALSE
        /\ UNCHANGED <<request_history, next_id, running>>

\* the forecast responder's shutdown settles: the loop goes on with the next
\* key, which raises when the dict has changed its size meanwhile (the raise
\* is outside the try of the loop body and leaves shutdown), then lines 296-300
shutdown_resumes(p, outcome, raising) ==
    LET c == call[p]
        done == Len(c.tasks)
        settled == [c.tasks EXCEPT ![done].st = outcome]
        rest == SubSeq(c.agent_types, done + 1, Len(c.agent_types))
    IN  /\ running = 0
        /\ c.op = "shutdown" /\ c.pc = "closing"
        /\ raising \subseteq {rest[i] : i \in 1..Len(rest)}
        /\ IF Cardinality(agents) /= Len(c.agent_types)
           THEN /\ call' = [call EXCEPT ![p] =
                      [c EXCEPT !.pc = "done", !.tasks = settled,
                                !.result = Raised(DictChangedSizeError)]]
                /\ UNCHANGED <<initialized, agents, active_requests>>
           ELSE /\ call' = [call EXCEPT ![p] =
                      [c EXCEPT !.pc = "done",
                                !.tasks = settled \o ShutdownCalls(rest, raising),
                                !.result = ReturnedNone]]
                /\ agents' = {}
                /\ active_requests' = EmptyMap
                /\ initialized' = FALSE
        /\ UNCHANGED <<request_history, next_id, running>>

(***************************************************************************)
(* coordinate_agents up to `await asyncio.gather(...)`: the updated call   *)
(* record and whether the call suspends there (a gather over no task is    *)
(* already done and does not suspend).                                     *)
(***************************************************************************)
LaunchAgents(c, agent_types) ==
    [c EXCEPT !.pc = "gather", !.agent_types = agent_types,
              !.tasks = CreateTasks(agent_types, agents), !.completion = <<>>]

SuspendsAtGather(c) == c.tasks /= <<>>

(***************************************************************************)
(* AgentOrchestrator.process_user_query, lines 52-72: the initialized      *)
(* check, the request id and the active-request entry.                     *)
(***************************************************************************)
\* variant: the initialized flag is not checked
process_user_query_unchecked(p, q, ctx) ==
    /\ running = 0
    /\ call[p].op = "idle"
    /\ next_id < MaxRequests
    /\ next_id' = next_id + 1
    /\ active_requests' =
          (generate_request_id(next_id) :> RequestRecord("processing"))
             @@ active_requests
    /\ call' = [call EXCEPT ![p] =
          [Idle EXCEPT !.op = "query", !.pc = "root", !.query = q,
                       !.context = IF ctx = "none" THEN "mapping" ELSE ctx,
                       !.request_id = generate_request_id(next_id)]]
    /\ running' = p
    /\ UNCHANGED <<initialized, agents, request_history>>

process_user_query(p, q, ctx) ==
    /\ running = 0
    /\ call[p].op = "idle"
    /\ (initialized => next_id < MaxRequests)
    /\ IF ~initialized
       THEN /\ call' = [call EXCEPT ![p] =
                  [Idle EXCEPT !.op = "query", !.pc = "done", !.query = q,
                               !.result = Raised(NotInitializedError)]]
            /\ UNCHANGED <<active_requests, next_id, running>>
       ELSE /\ next_id' = next_id + 1
            /\ active_requests' =
                  (generate_request_id(next_id) :> RequestRecord("processing"))
                     @@ active_requests
            /\ call' = [call EXCEPT ![p] =
                  [Idle EXCEPT !.op = "query", !.pc = "root", !.query = q,
                               !.context = IF ctx = "none" THEN "mapping" ELSE ctx,
                               !.request_id = generate_request_id(next_id)]]
            /\ running' = p
    /\ UNCHANGED <<initialized, agents, request_history>>

(***************************************************************************)
(* process_user_query lines 75-80 into RootAgent.process_request lines     *)
(* 54-63 and coordinate_agents lines 117-136: the context dict is built,   *)
(* the query is routed and the responders are launched.                    *)
(***************************************************************************)
root_process_request(p) ==
    LET c == call[p]
        routed == analyze_query(c.query)
    IN  /\ running = p
        /\ c.pc = "root"
        /\ IF "root" \notin agents
           THEN /\ call' = [call EXCEPT ![p] =
                      [c EXCEPT !.pc = "except", !.exc = KeyErrorOf("root")]]
                /\ UNCHANGED running
           ELSE IF c.context = "not_mapping"
           THEN /\ call' = [call EXCEPT ![p] =
                      [c EXCEPT !.pc = "except", !.exc = NotAMappingError]]
                /\ UNCHANGED running
           ELSE IF routed.raised
           THEN /\ call' = [call EXCEPT ![p] =
                      [c EXCEPT !.pc = "update", !.pipeline_exc = TRUE,
                                !.exc = routed.exc,
                                !.response = RootError(routed.exc)]]
                /\ UNCHANGED running
           ELSE LET launched ==
                        LaunchAgents([c EXCEPT !.analysis = routed.value],
                                     determine_required_agents(routed.value))
                IN  /\ call' = [call EXCEPT ![p] = launched]
                    /\ running' = IF SuspendsAtGather(launched) THEN 0 ELSE p
        /\ UNCHANGED <<initialized, agents, active_requests, request_history, next_id>>

(***************************************************************************)
(* One responder invocation launched by coordinate_agents settles          *)
(* (_call_agent_async returns or raises).                                  *)
(***************************************************************************)
responder_settles(p, i, outcome) ==
    LET c == call[p]
    IN  /\ running = 0
        /\ c.pc = "gather"
        /\ i \in 1..Len(c.tasks)
        /\ c.tasks[i].st = "running"
        /\ call' = [call EXCEPT ![p] =
              [c EXCEPT !.tasks[i].st = outcome,
                        !.completion = Append(c.completion, i)]]
        /\ UNCHANGED <<initialized, agents, active_requests, request_history,
                       next_id, running>>

(***************************************************************************)
(* coordinate_agents after the gather, lines 136-156, and the caller's     *)
(* code up to its next suspension or its end:                              *)
(*   the root agent (lines 67-72) merges the responses, and turns any      *)
(*     exception of its try block into its own error response;             *)
(*   handle_emergency_query (lines 190-196) looks the insights responder   *)
(*     up and awaits its correlation pass;                                 *)
(*   a direct caller gets the list.                                        *)
(***************************************************************************)
coordinate_agents_returns(p) ==
    LET c == call[p]
        g == gather(c.tasks, c.completion)
        responses == process_responses(c.agent_types, g.list)
        merged == synthesize_response(responses, c.analysis)
        d == [c EXCEPT !.coordinated = TRUE, !.responses = responses]
    IN  /\ c.pc = "gather"
        /\ g.ready
        /\ running = (IF SuspendsAtGather(c) THEN 0 ELSE p)
        /\ IF g.raised
           THEN IF c.op = "query"
                THEN /\ call' = [call EXCEPT ![p] =
                           [c EXCEPT !.pc = "update", !.pipeline_exc = TRUE,
                                     !.exc = g.exc,
                                     !.response = RootError(g.exc)]]
                     /\ running' = p
                ELSE /\ call' = [call EXCEPT ![p] =
                           [c EXCEPT !.pc = "done", !.result = Raised(g.exc)]]
                     /\ running' = 0
           ELSE CASE c.op = "query" ->
                     /\ call' = [call EXCEPT ![p] =
                           IF merged.raised
                           THEN [d EXCEPT !.pc = "update", !.pipeline_exc = TRUE,
                                          !.exc = merged.exc,
                                          !.response = RootError(merged.exc)]
                           ELSE [d EXCEPT !.pc = "update",
                                          !.response = RootSuccess(merged.value)]]
                     /\ running' = p
                  [] c.op = "emergency" ->
                     /\ call' = [call EXCEPT ![p] =
                           IF "insights" \notin agents
                           THEN [d EXCEPT !.pc = "done",
                                          !.result = Raised(KeyErrorOf("insights"))]
                           ELSE [d EXCEPT !.pc = "correlate", !.correlations = 1]]
                     /\ running' = 0
                  [] OTHER ->
                     /\ call' = [call EXCEPT ![p] =
                           [d EXCEPT !.pc = "done", !.result = ReturnedList]]
                     /\ running' = 0
        /\ UNCHANGED <<initialized, agents, active_requests, request_history, next_id>>

(***************************************************************************)
(* process_user_query lines 82-102: the record is completed, the history   *)
(* entry appended and the success envelope returned.  The lookup of the    *)
(* record raises KeyError when the entry is gone.                          *)
(***************************************************************************)
\* the dict appended to request_history (query and response kept as above)
HistoryEntry(request_id, query, response) ==
    [request_id |-> request_id, query_is_str |-> query.is_str,
     response_success |-> response.success, has_duration |-> TRUE]

\* variant: the record to complete is looked up under the id generated last,
\* as if the request id were kept in one attribute shared by all calls
process_user_query_completes_latest(p) ==
    LET c == call[p]
    IN  /\ running = p
        /\ c.pc = "update"
        /\ IF next_id \notin DOMAIN active_requests
           THEN /\ call' = [call EXCEPT ![p] =
                      [c EXCEPT !.pc = "except", !.exc = KeyErrorOf("request_id")]]
                /\ UNCHANGED <<active_requests, request_history, running>>
           ELSE /\ active_requests' = [active_requests EXCEPT ![next_id] =
                      [@ EXCEPT !.status = "completed", !.has_duration = TRUE,
                                !.has_response = TRUE,
                                !.response_success = c.response.success]]
                /\ request_history' = append_history(request_history,
                      HistoryEntry(next_id, c.query, c.response))
                /\ call' = [call EXCEPT ![p] =
                      [c EXCEPT !.pc = "done",
                                !.result = Envelope(format_response(c.response, c.request_id))]]
                /\ running' = 0
        /\ UNCHANGED <<initialized, agents, next_id>>

\* variant: the record is deleted from the map once its call has completed
process_user_query_completes_evicting(p) ==
    LET c == call[p]
    IN  /\ running = p
        /\ c.pc = "update"
        /\ IF c.request_id \notin DOMAIN active_requests
           THEN /\ call' = [call EXCEPT ![p] =
                      [c EXCEPT !.pc = "except", !.exc = KeyErrorOf("request_id")]]
                /\ UNCHANGED <<active_requests, request_history, running>>
           ELSE /\ active_requests' =
                      [id \in DOMAIN active_requests \ {c.request_id} |-> active_requests[id]]
                /\ request_history' = append_history(request_history,
                      HistoryEntry(c.request_id, c.query, c.response))
                /\ call' = [call EXCEPT ![p] =
                      [c EXCEPT !.pc = "done",
                                !.result = Envelope(format_response(c.response, c.request_id))]]
                /\ running' = 0
        /\ UNCHANGED <<initialized, agents, next_id>>

process_user_query_completes(p) ==
    LET c == call[p]
    IN  /\ running = p
        /\ c.pc = "update"
        /\ IF c.request_id \notin DOMAIN active_requests
           THEN /\ call' = [call EXCEPT ![p] =
                      [c EXCEPT !.pc = "except", !.exc = KeyErrorOf("request_id")]]
                /\ UNCHANGED <<active_requests, request_history, running>>
           ELSE /\ active_requests' = [active_requests EXCEPT ![c.request_id] =
                      [@ EXCEPT !.status = "completed", !.has_duration = TRUE,
                                !.has_response = TRUE,
                                !.response_success = c.response.success]]
                /\ request_history' = append_history(request_history,
                      HistoryEntry(c.request_id, c.query, c.response))
                /\ call' = [call EXCEPT ![p] =
                      [c EXCEPT !.pc = "done",
                                !.result = Envelope(format_response(c.response, c.request_id))]]
                /\ running' = 0
        /\ UNCHANGED <<initialized, agents, next_id>>

(***************************************************************************)
(* process_user_query lines 104-113: the except block.  Its own lookup of  *)
(* the record is not guarded: a KeyError there leaves the function.        *)
(***************************************************************************)
process_user_query_except(p) ==
    LET c == call[p]
    IN  /\ running = p
        /\ c.pc = "except"
        /\ IF c.request_id \notin DOMAIN active_requests
           THEN /\ call' = [call EXCEPT ![p] =
                      [c EXCEPT !.pc = "done", !.result = Raised(KeyErrorOf("request_id"))]]
                /\ UNCHANGED active_requests
           ELSE /\ active_requests' = [active_requests EXCEPT ![c.request_id] =
                      [@ EXCEPT !.status = "error", !.error = c.exc.message]]
                /\ call' = [call EXCEPT ![p] =
                      [c EXCEPT !.pc = "done",
                                !.result = Envelope(format_error_response(c.exc, c.request_id))]]
        /\ running' = 0
        /\ UNCHANGED <<initialized, agents, request_history, next_id>>

(***************************************************************************)
(* The emergency endpoint: main.process_emergency refuses the call unless  *)
(* the orchestrator is initialized (main.py line 163), then                *)
(* handle_emergency_query lines 173-188 fan out to the three core roles.   *)
(***************************************************************************)
EmergencyRoles == <<"forecast", "data", "insights">>

\* variant: the emergency path asks the Router which roles the query needs
handle_emergency_query_routed(p, q) ==
    LET launched == LaunchAgents([Idle EXCEPT !.op = "emergency", !.query = q],
                                 determine_required_agents(analyze_query(q).value))
    IN  /\ running = 0
        /\ call[p].op = "idle"
        /\ initialized
        /\ call' = [call EXCEPT ![p] = launched]
        /\ running' = IF SuspendsAtGather(launched) THEN 0 ELSE p
        /\ UNCHANGED <<initialized, agents, active_requests, request_history, next_id>>

\* variant: the correlation pass is started together with the fan-out
handle_emergency_query_correlating_at_once(p, q) ==
    LET launched == LaunchAgents([Idle EXCEPT !.op = "emergency", !.query = q,
                                              !.correlations = 1],
                                 EmergencyRoles)
    IN  /\ running = 0
        /\ call[p].op = "idle"
        /\ initialized
        /\ call' = [call EXCEPT ![p] = launched]
        /\ running' = IF SuspendsAtGather(launched) THEN 0 ELSE p
        /\ UNCHANGED <<initialized, agents, active_requests, request_history, next_id>>

\* variant: the emergency call is recorded like a query, under an id of its own
handle_emergency_query_recorded(p, q) ==
    LET launched == LaunchAgents([Idle EXCEPT !.op = "emergency", !.query = q,
                                     !.request_id = generate_request_id(next_id)],
                                 EmergencyRoles)
    IN  /\ running = 0
        /\ call[p].op = "idle"
        /\ initialized
        /\ next_id < MaxRequests
        /\ next_id' = next_id + 1
        /\ active_requests' =
              (generate_request_id(next_id) :> RequestRecord("processing"))
                 @@ active_requests
        /\ call' = [call EXCEPT ![p] = launched]
        /\ running' = IF SuspendsAtGather(launched) THEN 0 ELSE p
        /\ UNCHANGED <<initialized, agents, request_history>>

handle_emergency_query(p, q) ==
    LET launched == LaunchAgents([Idle EXCEPT !.op = "emergency", !.query = q],
                                 EmergencyRoles)
    IN  /\ running = 0
        /\ call[p].op = "idle"
        /\ initialized
        /\ call' = [call EXCEPT ![p] = launched]
        /\ running' = IF SuspendsAtGather(launched) THEN 0 ELSE p
        /\ UNCHANGED <<initialized, agents, active_requests, request_history, next_id>>

(***************************************************************************)
(* handle_emergency_query lines 192-204: the correlation pass of the       *)
(* insights responder settles; its exception, if any, leaves the function. *)
(***************************************************************************)
emergency_correlation_settles(p, outcome) ==
    LET c == call[p]
    IN  /\ running = 0
        /\ c.pc = "correlate"
        /\ call' = [call EXCEPT ![p] =
              [c EXCEPT !.pc = "done",
                        !.result = IF outcome = "raise"
                                   THEN Raised(ResponderError("insights"))
                                   ELSE EmergencyResponse]]
        /\ UNCHANGED <<initialized, agents, active_requests, request_history,
                       next_id, running>>

(***************************************************************************)
(* A direct call of the coordinator, coordinate_agents(agent_types, ...),  *)
(* lines 115-136.                                                          *)
(***************************************************************************)
RECURSIVE SeqsUpTo(_, _)
SeqsUpTo(S, n) ==
    IF n = 0 THEN {<<>>}
    ELSE SeqsUpTo(S, n - 1) \cup
         {Append(s, x) : s \in {t \in SeqsUpTo(S, n - 1) : Len(t) = n - 1}, x \in S}

RoleLists == SeqsUpTo(CallableRoles, MaxRoles)

coordinate_agents(p, agent_types) ==
    LET launched == LaunchAgents([Idle EXCEPT !.op = "coordinate"], agent_types)
    IN  /\ running = 0
        /\ call[p].op = "idle"
        /\ call' = [call EXCEPT ![p] = launched]
        /\ running' = IF SuspendsAtGather(launched) THEN 0 ELSE p
        /\ UNCHANGED <<initialized, agents, active_requests, request_history, next_id>>

(***************************************************************************)
(* AgentOrchestrator.get_request_history, lines 226-236: a synchronous     *)
(* function over request_history[-limit:].                                 *)
(***************************************************************************)
\* the Python slice s[start:] of a list
PySliceFrom(s, start) ==
    LET n == Len(s)
        first == IF start < 0 THEN (IF n + start < 0 THEN 0 ELSE n + start)
                 ELSE (IF start > n THEN n ELSE start)
    IN  SubSeq(s, first + 1, n)

\* request_history[-limit:]
RecentEntries(history, limit) == PySliceFrom(history, 0 - limit)

QueryDisplayError == Exc("TypeError", <<"can only concatenate list to list">>)

Limits == 0..(MaxRequests + 1)

get_request_history(p, limit) ==
    LET recent == RecentEntries(request_history, limit)
    IN  /\ running = 0
        /\ call[p].op = "idle"
        /\ call' = [call EXCEPT ![p] =
              [Idle EXCEPT !.op = "history", !.pc = "done", !.limit = limit,
                 !.result =
                    IF \E i \in 1..Len(recent) : ~recent[i].query_is_str
                    THEN Raised(QueryDisplayError)
                    ELSE ReturnedHistory([i \in 1..Len(recent) |-> recent[i].request_id])]]
        /\ UNCHANGED <<initialized, agents, active_requests, request_history,
                       next_id, running>>

(***************************************************************************)
(* Introspection: get_agent_status (lines 206-224), get_agent_capabilities *)
(* (lines 238-256) and health_check (lines 258-284).  None of them awaits  *)
(* anything: each runs from its call to its return in one piece.           *)
(***************************************************************************)
get_agent_status(p) ==
    /\ running = 0
    /\ call[p].op = "idle"
    /\ call' = [call EXCEPT ![p] =
          [Idle EXCEPT !.op = "status", !.pc = "done",
             !.result = Report("status",
                [NoReport EXCEPT !.initialized = initialized,
                                 !.active_requests = Cardinality(DOMAIN active_requests),
                                 !.total_requests = Len(request_history),
                                 !.agents = agents])]]
    /\ UNCHANGED <<initialized, agents, active_requests, request_history,
                   next_id, running>>

\* variant: a responder without tools is dropped from the registry
get_agent_capabilities_evicting(p) ==
    /\ running = 0
    /\ call[p].op = "idle"
    /\ call' = [call EXCEPT ![p] =
          [Idle EXCEPT !.op = "capabilities", !.pc = "done",
             !.result = Report("capabilities", [NoReport EXCEPT !.agents = agents])]]
    /\ agents' = agents \ {"root"}
    /\ UNCHANGED <<initialized, active_requests, request_history, next_id, running>>

get_agent_capabilities(p) ==
    /\ running = 0
    /\ call[p].op = "idle"
    /\ call' = [call EXCEPT ![p] =
          [Idle EXCEPT !.op = "capabilities", !.pc = "done",
             !.result = Report("capabilities", [NoReport EXCEPT !.agents = agents])]]
    /\ UNCHANGED <<initialized, agents, active_requests, request_history,
                   next_id, running>>

\* variant: the health of a responder is probed with a request to it
health_check_probing(p) ==
    LET launched == LaunchAgents([Idle EXCEPT !.op = "health"],
                                 <<"data", "insights">>)
    IN  /\ running = 0
        /\ call[p].op = "idle"
        /\ call' = [call EXCEPT ![p] = launched]
        /\ running' = IF SuspendsAtGather(launched) THEN 0 ELSE p
        /\ UNCHANGED <<initialized, agents, active_requests, request_history, next_id>>

health_check(p) ==
    /\ running = 0
    /\ call[p].op = "idle"
    /\ call' = [call EXCEPT ![p] =
          [Idle EXCEPT !.op = "health", !.pc = "done",
             !.result = Report("health",
                [NoReport EXCEPT !.status = "healthy",
                                 !.initialized = initialized,
                                 !.active_requests = Cardinality(DOMAIN active_requests),
                                 !.agents = agents])]]
    /\ UNCHANGED <<initialized, agents, active_requests, request_history,
                   next_id, running>>

(***************************************************************************)
(* The functions of the root agent applied one after the other to a query  *)
(* and to a result list handed in by the caller: analyze_query,            *)
(* determine_required_agents, synthesize_response.                         *)
(***************************************************************************)
analyze_query_applied(p) ==
    LET c == call[p]
        routed == analyze_query(c.query)
    IN  /\ c.op = "root" /\ c.pc = "analyze"
        /\ call' = [call EXCEPT ![p] =
              IF routed.raised
              THEN [c EXCEPT !.pc = "done", !.exc = routed.exc,
                             !.result = Raised(routed.exc)]
              ELSE [c EXCEPT !.pc = "route", !.analysis = routed.value]]
        /\ UNCHANGED <<initialized, agents, active_requests, request_history,
                       next_id, running>>

determine_required_agents_applied(p) ==
    LET c == call[p]
    IN  /\ c.op = "root" /\ c.pc = "route"
        /\ call' = [call EXCEPT ![p] =
              [c EXCEPT !.pc = "merge",
                        !.agent_types = determine_required_agents(c.analysis)]]
        /\ UNCHANGED <<initialized, agents, active_requests, request_history,
                       next_id, running>>

synthesize_response_applied(p) ==
    LET c == call[p]
        merged == synthesize_response(c.responses, c.analysis)
    IN  /\ c.op = "root" /\ c.pc = "merge"
        /\ call' = [call EXCEPT ![p] =
              IF merged.raised
              THEN [c EXCEPT !.pc = "done", !.exc = merged.exc,
                             !.result = Raised(merged.exc)]
              ELSE [c EXCEPT !.pc = "merged",
                             !.response = RootSuccess(merged.value)]]
        /\ UNCHANGED <<initialized, agents, active_requests, request_history,
                       next_id, running>>

(***************************************************************************)
(* The caller takes the result of a finished call.                         *)
(***************************************************************************)
call_returns(p) ==
    /\ running = 0
    /\ call[p].pc = "done"
    /\ call' = [call EXCEPT ![p] = Idle]
    /\ UNCHANGED <<initialized, agents, active_requests, request_history,
                   next_id, running>>

(***************************************************************************)
(* Specifications                                                          *)
(***************************************************************************)
\* process_user_query, one caller at a time: every query and every context
Next ==
    \/ \E failAt \in 0..Len(AgentOrder) : initialize(failAt)
    \/ shutdown
    \/ \E q \in Queries, ctx \in Contexts : process_user_query(1, q, ctx)
    \/ root_process_request(1)
    \/ \E i \in 1..MaxRoles, o \in Outcomes : responder_settles(1, i, o)
    \/ coordinate_agents_returns(1)
    \/ process_user_query_completes(1)
    \/ process_user_query_except(1)
    \/ \E limit \in Limits : get_request_history(1, limit)
    \/ call_returns(1)

Spec == Init /\ [][Next]_vars

\* the emergency endpoint, one caller at a time
NextEmergency ==
    \/ \E failAt \in 0..Len(AgentOrder) : initialize(failAt)
    \/ shutdown
    \/ \E q \in Queries : handle_emergency_query(1, q)
    \/ \E i \in 1..MaxRoles, o \in Outcomes : responder_settles(1, i, o)
    \/ coordinate_agents_returns(1)
    \/ \E o \in Outcomes : emergency_correlation_settles(1, o)
    \/ call_returns(1)

SpecEmergency == Init /\ [][NextEmergency]_vars

\* the coordinator called directly with any role list, over every registry
\* an initialization (complete or failed) or a shutdown leaves behind; the
\* registry is set up between two calls
NextCoord ==
    \/ call[1].op = "idle" /\ \E failAt \in 0..Len(AgentOrder) : initialize(failAt)
    \/ call[1].op = "idle" /\ shutdown
    \/ \E agent_types \in RoleLists : coordinate_agents(1, agent_types)
    \/ \E i \in 1..MaxRoles, o \in Outcomes : responder_settles(1, i, o)
    \/ coordinate_agents_returns(1)
    \/ call_returns(1)

SpecCoord == Init /\ [][NextCoord]_vars

\* several process_user_query calls in flight at once, with shutdown
ConcurrentQueries == {QTemperature, QNotStr}

NextConcurrent ==
    \/ \E failAt \in 0..Len(AgentOrder) : initialize(failAt)
    \/ shutdown
    \/ \E p \in Procs, q \in ConcurrentQueries, ctx \in Contexts :
          process_user_query(p, q, ctx)
    \/ \E p \in Procs : root_process_request(p)
    \/ \E p \in Procs, i \in 1..MaxRoles, o \in Outcomes : responder_settles(p, i, o)
    \/ \E p \in Procs : coordinate_agents_returns(p)
    \/ \E p \in Procs : process_user_query_completes(p)
    \/ \E p \in Procs : process_user_query_except(p)
    \/ \E p \in Procs : call_returns(p)

SpecConcurrent == Init /\ [][NextConcurrent]_vars

\* several process_user_query calls in flight on an orchestrator that is not
\* shut down
NextRunning ==
    \/ \E failAt \in 0..Len(AgentOrder) : initialize(failAt)
    \/ \E p \in Procs, q \in ConcurrentQueries, ctx \in Contexts :
          process_user_query(p, q, ctx)
    \/ \E p \in Procs : root_process_request(p)
    \/ \E p \in Procs, i \in 1..MaxRoles, o \in Outcomes : responder_settles(p, i, o)
    \/ \E p \in Procs : coordinate_agents_returns(p)
    \/ \E p \in Procs : process_user_query_completes(p)
    \/ \E p \in Procs : process_user_query_except(p)
    \/ \E p \in Procs : call_returns(p)

SpecRunning == Init /\ [][NextRunning]_vars

\* every operation of the orchestrator: the requests in one call slot, the
\* introspection operations in the other, so that they run while a request is
\* in flight
ServiceQueries == {QTemperature, QNotStr}
ServiceRoleLists == {<<"data">>, <<UnknownRole, "insights">>}
ServiceOutcomes == {"ok", "raise"}
DefaultLimit == 10

\* an introspection operation runs from its call to its return without
\* suspending: nothing else runs until its caller has the result
Returned(p) == call[p].op = "idle"

NextService ==
    \/ Returned(2) /\ \E failAt \in 0..Len(AgentOrder) : initialize(failAt)
    \/ Returned(2) /\ shutdown
    \/ Returned(2) /\ \E q \in ServiceQueries : process_user_query(1, q, "mapping")
    \/ Returned(2) /\ root_process_request(1)
    \/ Returned(2) /\ \E i \in 1..MaxRoles, o \in ServiceOutcomes : responder_settles(1, i, o)
    \/ Returned(2) /\ coordinate_agents_returns(1)
    \/ Returned(2) /\ process_user_query_completes(1)
    \/ Returned(2) /\ process_user_query_except(1)
    \/ Returned(2) /\ handle_emergency_query(1, QTemperature)
    \/ Returned(2) /\ \E o \in ServiceOutcomes : emergency_correlation_settles(1, o)
    \/ Returned(2) /\ \E agent_types \in ServiceRoleLists : coordinate_agents(1, agent_types)
    \/ Returned(2) /\ call_returns(1)
    \/ get_agent_status(2)
    \/ get_agent_capabilities(2)
    \/ health_check(2)
    \/ get_request_history(2, DefaultLimit)
    \/ call_returns(2)

SpecService == Init /\ [][NextService]_vars

\* calls in flight on the asyncio event loop of an orchestrator that is not
\* shut down: a responder invocation that was launched settles, and a call
\* that is ready to run its next stretch runs it
FairContexts == {"mapping", "not_mapping"}

Resumes(p) ==
    \/ root_process_request(p)
    \/ coordinate_agents_returns(p)
    \/ process_user_query_completes(p)
    \/ process_user_query_except(p)

NextFair ==
    \/ \E failAt \in 0..Len(AgentOrder) : initialize(failAt)
    \/ \E p \in Procs, q \in ConcurrentQueries, ctx \in FairContexts :
          process_user_query(p, q, ctx)
    \/ \E p \in Procs, i \in 1..MaxRoles, o \in ServiceOutcomes :
          responder_settles(p, i, o)
    \/ \E p \in Procs : Resumes(p)
    \/ \E p \in Procs : call_returns(p)

EventLoopRuns ==
    \A p \in Procs :
        /\ WF_vars(\E i \in 1..MaxRoles, o \in ServiceOutcomes : responder_settles(p, i, o))
        /\ WF_vars(Resumes(p))

SpecFair == Init /\ [][NextFair]_vars /\ EventLoopRuns

\* the end of the orchestrator's life: the shutdown in one call slot, run
\* from the application's lifespan after its initialize, while requests of the
\* other slot are in flight
NextShutdown ==
    \/ Returned(2) /\ \E failAt \in 0..Len(AgentOrder) : initialize(failAt)
    \/ \E q \in ServiceQueries : process_user_query(1, q, "mapping")
    \/ root_process_request(1)
    \/ \E i \in 1..MaxRoles, o \in ServiceOutcomes : responder_settles(1, i, o)
    \/ coordinate_agents_returns(1)
    \/ process_user_query_completes(1)
    \/ process_user_query_except(1)
    \/ call_returns(1)
    \/ \E raising \in SUBSET RegisteredRoles : shutdown_begins(2, raising)
    \/ \E o \in ServiceOutcomes, raising \in SUBSET RegisteredRoles :
          shutdown_resumes(2, o, raising)
    \/ call_returns(2)

SpecShutdown == Init /\ [][NextShutdown]_vars

\* the root agent's functions on their own: every keyword class of query and
\* every result list of at most MaxRoles entries
AllQueries ==
    {Query(TRUE, em, fc, da, loc) : em \in BOOLEAN, fc \in BOOLEAN,
                                    da \in BOOLEAN, loc \in BOOLEAN} \cup {QNotStr}

\* the entry coordinate_agents returns for one invocation of role with outcome st
Entry(role, st) ==
    process_responses(<<role>>, <<call_agent_async([role |-> role, st |-> st])>>)[1]

SparseEntry ==
    [agent_type |-> "data", response |-> generate_success_response("data", SparseData)]

MergeEntries ==
    {Entry(role, st) : role \in {"data", "forecast", "insights"}, st \in {"ok", "raise"}}
       \cup {Entry("data", "err"), Entry("forecast", "bad"), SparseEntry}

ResultLists == SeqsUpTo(MergeEntries, MaxRoles)

InitRoot ==
    /\ initialized = FALSE
    /\ agents = {}
    /\ active_requests = EmptyMap
    /\ request_history = <<>>
    /\ next_id = 0
    /\ running = 0
    /\ call \in {[p \in Procs |->
                    IF p = 1
                    THEN [Idle EXCEPT !.op = "root", !.pc = "analyze", !.query = q,
                                      !.responses = rs]
                    ELSE Idle] : q \in AllQueries, rs \in ResultLists}

NextRoot ==
    \/ analyze_query_applied(1)
    \/ determine_required_agents_applied(1)
    \/ synthesize_response_applied(1)

SpecRoot == InitRoot /\ [][NextRoot]_vars

(***************************************************************************)
(* Properties of the coordinator                                           *)
(***************************************************************************)
TaskRoles(c) == [i \in 1..Len(c.tasks) |-> c.tasks[i].role]

\* the entry the invocation t is expected to contribute to the result list
ExpectedResponse(t) ==
    IF t.st = "raise" THEN FailureResponse(ResponderError(t.role))
    ELSE process_request(t.role, t.st)

\* coordinate_agents has returned to its caller
CoordinationReturned(c) == c.coordinated

\* C1: whatever the order in which the invocations complete, the list
\* coordinate_agents returns for a list of registered roles has one entry per
\* role, the entry at index i being the result produced for agent_types[i].
C1_ResultOrderIsRoleOrder ==
    \A p \in Procs :
        LET c == call[p]
        IN  (CoordinationReturned(c) /\ Len(c.tasks) = Len(c.agent_types)) =>
               /\ Len(c.responses) = Len(c.agent_types)
               /\ \A i \in 1..Len(c.agent_types) :
                     /\ c.responses[i].agent_type = c.agent_types[i]
                     /\ c.responses[i].response = ExpectedResponse(c.tasks[i])

\* a call has returned whose invocations completed in another order than the
\* role order and produced different results
C1_Witness ==
    \E p \in Procs :
        LET c == call[p]
        IN  /\ c.op = "coordinate" /\ c.pc = "done"
            /\ Len(c.agent_types) = 3 /\ Len(c.tasks) = 3
            /\ c.completion = <<3, 1, 2>>
            /\ c.responses[1] /= c.responses[2]
            /\ c.responses[2] /= c.responses[3]
            /\ c.responses[1] /= c.responses[3]

\* C2: an invocation that raises becomes a failure entry (error, message of
\* the exception) at its position; every sibling ran to its own outcome and
\* its result is in the list; coordinate_agents itself returns normally.
C2_FailureIsolated ==
    \A p \in Procs :
        LET c == call[p]
        IN  (c.op = "coordinate" /\ c.pc = "done") =>
               /\ c.result.kind = "list"
               /\ Len(c.responses) = Len(c.tasks)
               /\ \A i \in 1..Len(c.tasks) :
                     /\ Settled(c.tasks[i])
                     /\ c.tasks[i].st = "raise" =>
                           /\ c.responses[i].response.error
                           /\ ~c.responses[i].response.success
                           /\ c.responses[i].response.message =
                                 ResponderError(c.tasks[i].role).message
                     /\ c.tasks[i].st /= "raise" =>
                           c.responses[i] =
                              [agent_type |-> c.tasks[i].role,
                               response |-> process_request(c.tasks[i].role, c.tasks[i].st)]

\* a call has returned in which the first invocation raised and two siblings
\* succeeded
C2_Witness ==
    \E p \in Procs :
        LET c == call[p]
        IN  /\ c.op = "coordinate" /\ c.pc = "done"
            /\ Len(c.tasks) = 3
            /\ c.tasks[1].st = "raise"
            /\ c.tasks[2].st = "ok" /\ c.tasks[3].st = "ok"
            /\ c.responses[2].response.success /\ c.responses[3].response.success

\* C3: in no state has coordinate_agents returned while an invocation it
\* launched is still running.
C3_ReturnsAfterAllSettled ==
    \A p \in Procs :
        call[p].pc \notin {"idle", "root", "gather"} =>
            \A i \in 1..Len(call[p].tasks) : Settled(call[p].tasks[i])

\* a call has returned in which an invocation failed first and its siblings
\* settled after the failure
C3_Witness ==
    \E p \in Procs :
        LET c == call[p]
        IN  /\ CoordinationReturned(c)
            /\ Len(c.tasks) = 3
            /\ c.tasks[c.completion[1]].st = "raise"
            /\ c.tasks[c.completion[2]].st = "ok"
            /\ c.tasks[c.completion[3]].st = "err"

\* C4: a role that is not in the registry is skipped: no invocation is
\* launched for it, one invocation is launched for every role of the list the
\* registry holds, in list order, each of them gets its entry in the result
\* and the call returns normally.
C4_UnknownRoleSkipped ==
    /\ [](\A p \in Procs :
            LET c == call[p]
            IN  /\ \A i \in 1..Len(c.tasks) : c.tasks[i].role /= UnknownRole
                /\ (c.op = "coordinate" /\ c.pc = "done") =>
                      /\ c.result.kind = "list"
                      /\ Len(c.responses) = Len(c.tasks)
                      /\ \A i \in 1..Len(c.tasks) :
                            c.responses[i].response = ExpectedResponse(c.tasks[i]))
    /\ [][\A p \in Procs :
            (call[p].pc = "idle" /\ call'[p].pc = "gather") =>
                LET Registered(r) == r \in agents
                IN  TaskRoles(call'[p]) = SelectSeq(call'[p].agent_types, Registered)]_vars

\* a call has returned whose list named the unknown role before two
\* registered roles, both of which were invoked
C4_Witness ==
    \E p \in Procs :
        LET c == call[p]
        IN  /\ c.op = "coordinate" /\ c.pc = "done"
            /\ c.agent_types = <<UnknownRole, "data", "insights">>
            /\ TaskRoles(c) = <<"data", "insights">>
            /\ c.result.kind = "list"
            /\ c.responses[1].response.success

(***************************************************************************)
(* Properties of the emergency path                                        *)
(***************************************************************************)
RouterRoles(q) == determine_required_agents(analyze_query(q).value)

\* C5: whatever the query, and whatever roles the Router would select for it,
\* the fan-out of handle_emergency_query is one invocation for each of
\* forecast, data and insights.
C5_EmergencyInvokesAllCoreRoles ==
    \A p \in Procs :
        call[p].op = "emergency" =>
            /\ Len(call[p].tasks) = 3
            /\ \A r \in {"forecast", "data", "insights"} :
                  Cardinality({i \in 1..Len(call[p].tasks) : call[p].tasks[i].role = r}) = 1

\* an emergency call for a query the Router maps to forecast alone has
\* collected the results of all three roles
C5_Witness ==
    \E p \in Procs :
        LET c == call[p]
        IN  /\ c.op = "emergency" /\ CoordinationReturned(c)
            /\ c.query.is_str /\ RouterRoles(c.query) = <<"forecast">>
            /\ Len(c.responses) = 3
            /\ \A i \in 1..3 : c.responses[i].response.success

(***************************************************************************)
(* Properties of process_user_query                                        *)
(***************************************************************************)
\* a finished process_user_query call that passed the initialized check
FinishedQuery(c) == c.op = "query" /\ c.pc = "done" /\ c.request_id /= 0

ReturnedEnvelope(c) == FinishedQuery(c) /\ c.result.kind = "envelope"

HistoryEntriesOf(request_id) ==
    {i \in 1..Len(request_history) : request_history[i].request_id = request_id}

ExceptionOccurred(c) == c.pipeline_exc \/ c.exc /= NoExc

\* C7 as stated: when a call finishes, its record is 'completed' exactly when
\* no exception occurred while the request was processed, else 'error'.
C7_Claim ==
    \A p \in Procs :
        (FinishedQuery(call[p]) /\ call[p].request_id \in DOMAIN active_requests) =>
            LET status == active_requests[call[p].request_id].status
            IN  /\ status = "completed" <=> ~ExceptionOccurred(call[p])
                /\ ExceptionOccurred(call[p]) => status = "error"

\* C8 as stated: when the Router or the Aggregator raises, the caller gets an
\* envelope of status 'error' carrying the exception's message and type name.
C8_Claim ==
    \A p \in Procs :
        (FinishedQuery(call[p]) /\ call[p].pipeline_exc) =>
            /\ call[p].result.kind = "envelope"
            /\ call[p].result.envelope.status = "error"
            /\ call[p].result.envelope.error.message = call[p].exc.message
            /\ call[p].result.envelope.error.type = call[p].exc.type

\* C9 as stated: every call started on an initialized orchestrator ends with
\* an envelope; no exception leaves process_user_query.
C9_Claim ==
    \A p \in Procs : FinishedQuery(call[p]) => call[p].result.kind = "envelope"

\* C10: a record is created with status 'processing'; its status changes only
\* from 'processing' to 'completed' or 'error'; when its call has returned an
\* envelope the change has happened.
C10_StatusLifecycle ==
    /\ [](\A p \in Procs :
            (ReturnedEnvelope(call[p]) /\ call[p].request_id \in DOMAIN active_requests) =>
                active_requests[call[p].request_id].status \in {"completed", "error"})
    /\ [][\A id \in DOMAIN active_requests' :
            IF id \notin DOMAIN active_requests
            THEN active_requests'[id].status = "processing"
            ELSE active_requests'[id].status /= active_requests[id].status =>
                    /\ active_requests[id].status = "processing"
                    /\ active_requests'[id].status \in {"completed", "error"}]_vars

\* one record has gone from processing to completed, another from processing
\* to error, and a third is still processing
C10_Witness ==
    /\ DOMAIN active_requests = {1, 2, 3}
    /\ {active_requests[id].status : id \in DOMAIN active_requests} =
          {"processing", "completed", "error"}

(***************************************************************************)
(* Properties of the aggregated response                                   *)
(***************************************************************************)
RECURSIVE Concat(_)
Concat(seqs) == IF seqs = <<>> THEN <<>> ELSE Head(seqs) \o Concat(Tail(seqs))

Range(s) == {s[i] : i \in 1..Len(s)}

\* the root agent has merged the results of the call's invocations
Merged(c) == c.op = "query" /\ c.coordinated /\ c.response.success

\* the payload of the invocation t when it succeeded
Payload(t) == ResponderData(t.role, TRUE)

\* what the successful invocations, taken in the order `order` of task
\* indexes, contribute to the summary, details, recommendations and sources
SummaryOf(tasks, order) ==
    Concat([k \in 1..Len(order) |->
              IF tasks[order[k]].st = "ok"
              THEN Payload(tasks[order[k]]).summary \o <<" ">> ELSE <<>>])
DetailsOf(tasks, order) ==
    Concat([k \in 1..Len(order) |->
              IF tasks[order[k]].st = "ok"
              THEN (IF Payload(tasks[order[k]]).details.is_list
                    THEN Payload(tasks[order[k]]).details.items
                    ELSE <<Payload(tasks[order[k]]).details.whole>>)
              ELSE <<>>])
RecommendationsOf(tasks, order) ==
    Concat([k \in 1..Len(order) |->
              IF tasks[order[k]].st = "ok"
              THEN Payload(tasks[order[k]]).recommendations ELSE <<>>])
SourcesOf(tasks, order) ==
    Concat([k \in 1..Len(order) |->
              IF tasks[order[k]].st = "ok"
              THEN Payload(tasks[order[k]]).sources ELSE <<>>])

CallOrder(tasks) == [i \in 1..Len(tasks) |-> i]

\* C11: the merged response holds the summary, details, recommendations and
\* sources of every successful entry and nothing of a failed entry, no token
\* of a failure message being in the summary; for an emergency-classified
\* query whose data responder failed while forecast and insights succeeded,
\* alert is set, immediate_actions is not empty and the sources are those of
\* the forecast and insights responders.
C11_MergeKeepsSuccessesOnly ==
    \A p \in Procs :
        LET c == call[p]
            m == c.response.synthesis
        IN  Merged(c) =>
               /\ m.summary = SummaryOf(c.tasks, CallOrder(c.tasks))
               /\ m.details = DetailsOf(c.tasks, CallOrder(c.tasks))
               /\ m.recommendations = RecommendationsOf(c.tasks, CallOrder(c.tasks))
               /\ m.sources = SourcesOf(c.tasks, CallOrder(c.tasks))
               /\ \A i \in 1..Len(c.responses) :
                     ~c.responses[i].response.success =>
                        Range(m.summary) \cap Range(c.responses[i].response.message) = {}
               /\ ( /\ c.analysis.type = "emergency"
                    /\ TaskRoles(c) = <<"forecast", "data", "insights">>
                    /\ c.tasks[1].st = "ok" /\ c.tasks[3].st = "ok"
                    /\ c.tasks[2].st \in {"err", "raise"} ) =>
                        /\ m.alert
                        /\ m.immediate_actions /= <<>>
                        /\ m.sources = <<AgentName("forecast"), AgentName("insights")>>

\* an emergency query has been merged after its data invocation raised and
\* its forecast and insights invocations succeeded
C11_Witness ==
    \E p \in Procs :
        LET c == call[p]
        IN  /\ Merged(c) /\ c.pc = "done"
            /\ c.analysis.type = "emergency"
            /\ TaskRoles(c) = <<"forecast", "data", "insights">>
            /\ c.tasks[1].st = "ok" /\ c.tasks[2].st = "raise" /\ c.tasks[3].st = "ok"
            /\ c.response.synthesis.summary /= <<>>

\* synthesize_response has returned for the query and result list of the call
MergeApplied(c) == c.op = "root" /\ c.pc = "merged"

EmptyFields(m) ==
    /\ m.summary = <<>>
    /\ m.details = <<>>
    /\ m.recommendations = <<>>
    /\ m.sources = <<>>

\* C12 as stated: merging the empty result list gives empty summary, details,
\* recommendations and sources and no alert, whatever the classification.
C12_Original ==
    \A p \in Procs :
        (MergeApplied(call[p]) /\ call[p].responses = <<>>) =>
            /\ EmptyFields(call[p].response.synthesis)
            /\ ~call[p].response.synthesis.alert

\* C12 amended: merging the empty result list gives empty summary, details,
\* recommendations and sources; alert and immediate_actions are absent unless
\* the classification's urgency is high, and then alert is set and
\* immediate_actions is the list of the three fallback actions.
C12_EmptyMerge ==
    \A p \in Procs :
        LET c == call[p]
            m == c.response.synthesis
        IN  (MergeApplied(c) /\ c.responses = <<>>) =>
               /\ EmptyFields(m)
               /\ m.urgency = c.analysis.urgency
               /\ m.alert <=> (c.analysis.urgency = "high")
               /\ m.immediate_actions =
                     (IF c.analysis.urgency = "high" THEN FallbackActions ELSE <<>>)

\* the empty result list has been merged for a query with an emergency keyword
C12_Witness ==
    \E p \in Procs :
        LET c == call[p]
        IN  /\ MergeApplied(c) /\ c.responses = <<>>
            /\ c.query.emergency
            /\ c.response.synthesis.alert
            /\ Len(c.response.synthesis.immediate_actions) = 3

(***************************************************************************)
(* Properties of the history and of the introspection operations           *)
(***************************************************************************)
Min(a, b) == IF a < b THEN a ELSE b

\* C13 as stated: for every limit >= 0 and a history of n entries,
\* get_request_history(limit) returns min(limit, n) entries, the most recently
\* recorded ones, in the order in which they were recorded.
C13_Claim ==
    \A p \in Procs :
        LET c == call[p]
            n == Len(request_history)
            k == Min(c.limit, n)
        IN  (c.op = "history" /\ c.result.kind = "history") =>
               /\ Len(c.result.entries) = k
               /\ \A i \in 1..Len(c.result.entries) :
                     c.result.entries[i] = request_history[n - Len(c.result.entries) + i].request_id

\* C14 as stated: when the initialization of a responder raises during
\* initialize on a fresh orchestrator, nothing of the startup is left behind:
\* initialized is false and the registry holds no responder.
C14_Claim ==
    [][(/\ ~initialized /\ agents = {}
        /\ \E failAt \in 1..Len(AgentOrder) : initialize(failAt))
          => (~initialized' /\ agents' = {})]_vars

Introspective(c) == c.op \in {"status", "capabilities", "health"}

\* C15: get_agent_status, get_agent_capabilities and health_check change
\* neither the registry, the active-request map, the request history nor the
\* initialized flag, nor any call in flight; they launch no responder
\* invocation and wait for nothing (they are finished in the step that starts
\* them), and what they report is the state they were called in.
C15_IntrospectionReadOnly ==
    /\ [](\A p \in Procs :
            Introspective(call[p]) =>
                /\ call[p].tasks = <<>>
                /\ call[p].pc = "done"
                /\ call[p].result.kind = call[p].op)
    /\ [][\A p \in Procs :
            (call[p].op = "idle" /\ Introspective(call'[p])) =>
                /\ UNCHANGED <<initialized, agents, active_requests, request_history>>
                /\ \A q \in Procs \ {p} : call'[q] = call[q]
                /\ call'[p].result.report.agents = agents
                /\ call'[p].op \in {"status", "health"} =>
                      /\ call'[p].result.report.initialized = initialized
                      /\ call'[p].result.report.active_requests =
                            Cardinality(DOMAIN active_requests)]_vars

\* a health check has run while a request was waiting for its responder and
\* another request was on record
C15_Witness ==
    /\ call[2].op = "health" /\ call[2].pc = "done"
    /\ call[1].op = "query" /\ call[1].pc = "gather"
    /\ \E i \in 1..Len(call[1].tasks) : ~Settled(call[1].tasks[i])
    /\ call[2].result.report.active_requests = 2
    /\ request_history /= <<>>

\* C16: once initialize has completed, the registry holds exactly the four
\* roles root, data, forecast and insights in every state until shutdown; a
\* step that changes the registry of an initialized orchestrator is the
\* shutdown, which empties it.
C16_RegistryFixed ==
    /\ [](initialized => agents = RegisteredRoles)
    /\ [][(initialized /\ agents' /= agents) => (agents' = {} /\ ~initialized')]_vars

\* on an initialized orchestrator a query is waiting for its responder, after
\* an earlier request completed, and a capabilities call has just run
C16_Witness ==
    /\ initialized /\ agents = RegisteredRoles
    /\ call[1].op = "emergency" /\ call[1].pc = "correlate"
    /\ call[2].op = "capabilities"
    /\ Len(request_history) = 2

(***************************************************************************)
(* Properties of the Router                                                *)
(***************************************************************************)
\* every classification record, with a type analyze_query does not produce
Analyses ==
    [type : {"general", "emergency", "forecast", "data_analysis", "other"},
     urgency : {"medium", "high"}, location_based : BOOLEAN, time_sensitive : BOOLEAN]

RolesFor(type, location_based) ==
    IF type = "emergency" THEN <<"forecast", "data", "insights">>
    ELSE IF type = "forecast"
         THEN (IF location_based THEN <<"forecast", "data">> ELSE <<"forecast">>)
    ELSE IF type = "data_analysis" THEN <<"data", "insights">>
    ELSE <<"forecast">>

NoRoleTwice(roles) ==
    \A i, j \in 1..Len(roles) : roles[i] = roles[j] => i = j

\* the Router has produced the role list of the call's query
Routed(c) == c.op = "root" /\ c.pc \in {"merge", "merged"}

\* C17: the role list is determined by the classification's type and
\* location flag: emergency gives forecast, data, insights; forecast gives
\* forecast, and data after it exactly when the query is location-based;
\* data_analysis gives data, insights; any other type gives forecast.  The
\* list is never empty and names no role twice.
C17_RolesFromClassification ==
    /\ \A a \in Analyses :
          /\ determine_required_agents(a) = RolesFor(a.type, a.location_based)
          /\ determine_required_agents(a) /= <<>>
          /\ NoRoleTwice(determine_required_agents(a))
    /\ \A p \in Procs :
          Routed(call[p]) =>
             /\ call[p].agent_types =
                   RolesFor(call[p].analysis.type, call[p].analysis.location_based)
             /\ call[p].agent_types /= <<>>
             /\ NoRoleTwice(call[p].agent_types)

\* a query with a forecast and a location keyword has been routed to the
\* forecast and data roles
C17_Witness ==
    \E p \in Procs :
        /\ Routed(call[p])
        /\ call[p].query.forecast /\ call[p].query.location /\ ~call[p].query.data
        /\ call[p].agent_types = <<"forecast", "data">>

(***************************************************************************)
(* Order of the aggregated fields and labels of the coordinator's entries  *)
(***************************************************************************)
\* C18 as stated: sources and recommendations of the aggregated response are
\* accumulated in the order in which the responders completed.
C18_Original ==
    \A p \in Procs :
        LET c == call[p]
        IN  Merged(c) =>
               /\ c.response.synthesis.sources = SourcesOf(c.tasks, c.completion)
               /\ c.response.synthesis.recommendations =
                     RecommendationsOf(c.tasks, c.completion)

\* C18 amended: sources and recommendations of the aggregated response are
\* accumulated in the order of the role list the responders were called
\* with, whatever the order in which the responders completed.
C18_AccumulatedInCallOrder ==
    \A p \in Procs :
        LET c == call[p]
        IN  Merged(c) =>
               /\ TaskRoles(c) = c.agent_types
               /\ c.response.synthesis.sources =
                     SourcesOf(c.tasks, CallOrder(c.agent_types))
               /\ c.response.synthesis.recommendations =
                     RecommendationsOf(c.tasks, CallOrder(c.agent_types))

\* the data and insights responders of a query completed in the reverse of
\* the call order, and the aggregated fields follow the call order
C18_Witness ==
    \E p \in Procs :
        LET c == call[p]
        IN  /\ Merged(c)
            /\ c.agent_types = <<"data", "insights">>
            /\ c.completion = <<2, 1>>
            /\ c.response.synthesis.sources = <<AgentName("data"), AgentName("insights")>>
            /\ c.response.synthesis.recommendations =
                  <<"prepare", "data", "prepare", "insights">>

\* C19 as stated: every entry coordinate_agents returns, success or failure,
\* is labelled with the role whose invocation produced it, for every role
\* list, also when an unregistered role was skipped before a role whose
\* invocation raised.
C19_Claim ==
    \A p \in Procs :
        LET c == call[p]
        IN  CoordinationReturned(c) =>
               /\ Len(c.responses) = Len(c.tasks)
               /\ \A i \in 1..Len(c.responses) :
                     c.responses[i].agent_type = c.tasks[i].role

(***************************************************************************)
(* The aggregated fields as concatenations over the successful results     *)
(***************************************************************************)
Succeeded(entry) == entry.response.success
HasSummary(entry) == Succeeded(entry) /\ "summary" \in entry.response.data.keys
HasDetails(entry) == Succeeded(entry) /\ "details" \in entry.response.data.keys

\* the elements of seqs with sep between two neighbours
RECURSIVE Join(_, _)
Join(seqs, sep) ==
    IF seqs = <<>> THEN <<>>
    ELSE IF Len(seqs) = 1 THEN Head(seqs)
    ELSE Head(seqs) \o sep \o Join(Tail(seqs), sep)

SummariesIn(results) ==
    LET with == SelectSeq(results, HasSummary)
    IN  [i \in 1..Len(with) |-> with[i].response.data.summary]

DetailsIn(results) ==
    LET with == SelectSeq(results, HasDetails)
    IN  [i \in 1..Len(with) |->
           IF with[i].response.data.details.is_list
           THEN with[i].response.data.details.items
           ELSE <<with[i].response.data.details.whole>>]

RecommendationsIn(results) ==
    LET with == SelectSeq(results, Succeeded)
    IN  [i \in 1..Len(with) |-> with[i].response.data.recommendations]

SourcesIn(results) ==
    LET with == SelectSeq(results, Succeeded)
    IN  [i \in 1..Len(with) |-> with[i].response.data.sources]

\* details, recommendations and sources of the merged response m are the
\* in-order concatenations over the successful results
ListsConcatenated(m, results) ==
    /\ m.details = Concat(DetailsIn(results))
    /\ m.recommendations = Concat(RecommendationsIn(results))
    /\ m.sources = Concat(SourcesIn(results))

\* C20 as stated: the summary is the summaries of the successful results
\* joined by a separating space; details, recommendations and sources are
\* in-order concatenations (a list-valued details element by element, any
\* other details as one element; duplicates kept).
C20_Original ==
    \A p \in Procs :
        LET c == call[p]
        IN  MergeApplied(c) =>
               /\ c.response.synthesis.summary = Join(SummariesIn(c.responses), <<" ">>)
               /\ ListsConcatenated(c.response.synthesis, c.responses)

\* C20 amended: the summary is the concatenation, in result order, of the
\* summary of each successful result followed by one space (so a nonempty
\* summary ends with a space); details, recommendations and sources are
\* in-order concatenations (a list-valued details element by element, any
\* other details as one element; duplicates kept).
C20_MergeConcatenates ==
    \A p \in Procs :
        LET c == call[p]
            summaries == SummariesIn(c.responses)
        IN  MergeApplied(c) =>
               /\ c.response.synthesis.summary =
                     Concat([i \in 1..Len(summaries) |-> summaries[i] \o <<" ">>])
               /\ ListsConcatenated(c.response.synthesis, c.responses)

\* a list of a data result (details a list), a failed forecast result and an
\* insights result (details one mapping) has been merged: the details hold
\* the two records and the mapping, the recommendations hold "prepare" twice
C20_Witness ==
    \E p \in Procs :
        LET c == call[p]
            m == c.response.synthesis
        IN  /\ MergeApplied(c)
            /\ c.responses = <<Entry("data", "ok"), Entry("forecast", "raise"),
                               Entry("insights", "ok")>>
            /\ m.summary = <<"data", " ", "insights", " ">>
            /\ m.details = <<"record 1", "record 2", "insights">>
            /\ m.recommendations = <<"prepare", "data", "prepare", "insights">>
            /\ m.sources = <<AgentName("data"), AgentName("insights")>>

(***************************************************************************)
(* Urgency, alert and immediate actions of the aggregated response         *)
(***************************************************************************)
\* the urgency the Router's classification gives a query
RouterUrgency(q) == analyze_query(q).value.urgency

\* C21: the urgency of the aggregated response is the urgency of the Router's
\* classification of the query: it is a function of the query alone, the
\* same for every list of responder results (successes, failures, payloads
\* with or without emergency actions) merged for that query.
C21_UrgencyFromRouterOnly ==
    \A p \in Procs :
        LET c == call[p]
        IN  MergeApplied(c) =>
               /\ c.analysis = analyze_query(c.query).value
               /\ c.response.synthesis.urgency = RouterUrgency(c.query)

\* a query without emergency keyword has been merged with results that carry
\* emergency actions and a failure: the urgency stays medium
C21_Witness ==
    \E p \in Procs :
        LET c == call[p]
        IN  /\ MergeApplied(c)
            /\ ~c.query.emergency
            /\ c.responses = <<Entry("insights", "ok"), Entry("forecast", "raise"),
                               Entry("forecast", "ok")>>
            /\ c.response.synthesis.urgency = "medium"

\* the emergency_actions of every result, in result order; a result without
\* the field (a failure, a payload without the key) has the empty list
EmergencyActionsIn(results) ==
    [i \in 1..Len(results) |-> results[i].response.data.emergency_actions]

\* C22: the aggregated response has alert = true and an immediate_actions
\* field exactly when the urgency is high; immediate_actions is then the
\* concatenation, in result order, of every result's emergency_actions, or
\* the three fallback actions when that concatenation is empty, and so is
\* never empty.
C22_AlertIffHighUrgency ==
    \A p \in Procs :
        LET c == call[p]
            m == c.response.synthesis
            collected == Concat(EmergencyActionsIn(c.responses))
        IN  MergeApplied(c) =>
               /\ m.alert <=> (m.urgency = "high")
               /\ m.urgency /= "high" => m.immediate_actions = <<>>
               /\ m.urgency = "high" =>
                     /\ m.immediate_actions =
                           (IF collected = <<>> THEN FallbackActions ELSE collected)
                     /\ m.immediate_actions /= <<>>
               /\ Len(FallbackActions) = 3

\* for a query with an emergency keyword a list of three results has been
\* merged, and only a data result, which has no emergency_actions, succeeded:
\* the immediate actions are the three fallback actions
C22_Witness ==
    \E p \in Procs :
        LET c == call[p]
        IN  /\ MergeApplied(c)
            /\ c.query.emergency
            /\ c.responses = <<Entry("forecast", "raise"), Entry("data", "ok"),
                               Entry("insights", "raise")>>
            /\ c.response.synthesis.alert
            /\ c.response.synthesis.immediate_actions = FallbackActions

(***************************************************************************)
(* The Router's classification                                             *)
(***************************************************************************)
\* analyze_query has returned the classification of the call's query
Classified(c) == c.op = "root" /\ c.pc \in {"route", "merge", "merged"}

\* C28: analyze_query yields urgency high exactly when the query contains an
\* emergency keyword, and type emergency exactly when it contains an
\* emergency keyword and neither a forecast nor a data keyword: for the type
\* a data keyword overrides a forecast keyword, which overrides an emergency
\* keyword.  Type emergency implies urgency high; the converse fails for a
\* query with an emergency keyword and a forecast or data keyword.
C28_UrgencyAndTypeFromKeywords ==
    /\ \A p \in Procs :
          LET c == call[p]
              a == c.analysis
          IN  Classified(c) =>
                 /\ (a.urgency = "high") <=> c.query.emergency
                 /\ (a.type = "emergency") <=>
                       (c.query.emergency /\ ~c.query.forecast /\ ~c.query.data)
                 /\ c.query.data => a.type = "data_analysis"
                 /\ (c.query.forecast /\ ~c.query.data) => a.type = "forecast"
                 /\ (a.type = "emergency") => (a.urgency = "high")
    /\ \E q \in AllQueries :
          /\ ~analyze_query(q).raised
          /\ analyze_query(q).value.urgency = "high"
          /\ analyze_query(q).value.type /= "emergency"

\* a query with an emergency, a forecast and a data keyword has been
\* classified: its urgency is high and its type is data_analysis
C28_Witness ==
    \E p \in Procs :
        LET c == call[p]
        IN  /\ Classified(c)
            /\ c.query.emergency /\ c.query.data /\ c.query.forecast
            /\ c.analysis.urgency = "high"
            /\ c.analysis.type = "data_analysis"

(***************************************************************************)
(* The emergency path                                                      *)
(***************************************************************************)
\* the invocations of the insights responder a call has issued so far: those
\* of its fan-out and its correlation passes
InsightsInvocations(c) ==
    Cardinality({i \in 1..Len(c.tasks) : c.tasks[i].role = "insights"}) + c.correlations

AllSettled(c) == \A i \in 1..Len(c.tasks) : Settled(c.tasks[i])

\* C23: in handle_emergency_query the correlation pass of the insights
\* responder starts only after every invocation of the fan-out over forecast,
\* data and insights has settled, and it is given the list coordinate_agents
\* collected from them; a call that makes the pass has thus invoked the
\* insights responder exactly twice, and the value a call returns is tagged
\* priority critical.
C23_CorrelationAfterFanOut ==
    /\ [](\A p \in Procs :
            LET c == call[p]
            IN  c.op = "emergency" =>
                   /\ TaskRoles(c) = EmergencyRoles
                   /\ c.correlations \in {0, 1}
                   /\ c.correlations = 1 =>
                         /\ AllSettled(c)
                         /\ CoordinationReturned(c)
                         /\ Len(c.responses) = 3
                         /\ \A i \in 1..3 :
                               c.responses[i].response = ExpectedResponse(c.tasks[i])
                         /\ InsightsInvocations(c) = 2
                   /\ c.pc = "correlate" => c.correlations = 1
                   /\ (c.pc = "done" /\ c.result.kind /= "raised") =>
                         /\ c.result.kind = "emergency_response"
                         /\ c.result.priority = "critical"
                         /\ InsightsInvocations(c) = 2)
    /\ [][\A p \in Procs :
            (call[p].op = "emergency" /\ call[p].correlations = 0
                /\ call'[p].correlations = 1) =>
               /\ AllSettled(call[p])
               /\ call'[p].tasks = call[p].tasks]_vars

\* an emergency call has returned its value after the insights invocation of
\* the fan-out settled last, behind a forecast invocation that raised
C23_Witness ==
    \E p \in Procs :
        LET c == call[p]
        IN  /\ c.op = "emergency" /\ c.pc = "done"
            /\ c.result.priority = "critical"
            /\ c.completion = <<1, 2, 3>>
            /\ c.tasks[1].st = "raise" /\ c.tasks[3].st = "ok"
            /\ InsightsInvocations(c) = 2

\* a step of the emergency call of p: its start, one of its invocations
\* settling, a resumption, or the caller taking its result
EmergencyStep(p) ==
    /\ call'[p] /= call[p]
    /\ call[p].op = "emergency" \/ call'[p].op = "emergency"

\* C26: handle_emergency_query leaves the request history and the
\* active-request map unchanged: no step of an emergency call creates or
\* changes a request record or appends a history entry, the call gets no
\* request_id and returns no envelope carrying one, and the active_requests
\* and total_requests figures of a status report are the same before and
\* after each of its steps.
C26_EmergencyLeavesRecordsAlone ==
    /\ [](\A p \in Procs :
            call[p].op = "emergency" =>
               /\ call[p].request_id = 0
               /\ call[p].result.envelope = NoEnvelope)
    /\ [](\A p \in Procs :
            (call[p].op = "status" /\ call[p].pc = "done") =>
               /\ call[p].result.report.active_requests =
                     Cardinality(DOMAIN active_requests)
               /\ call[p].result.report.total_requests = Len(request_history))
    /\ [][\A p \in Procs :
            EmergencyStep(p) =>
               /\ UNCHANGED <<active_requests, request_history, next_id>>
               /\ Cardinality(DOMAIN active_requests') =
                     Cardinality(DOMAIN active_requests)
               /\ Len(request_history') = Len(request_history)]_vars

\* after one query was recorded an emergency call has returned its value, and
\* the status taken then reports one active request and one request in total
C26_Witness ==
    /\ call[1].op = "emergency" /\ call[1].pc = "done"
    /\ call[1].result.kind = "emergency_response"
    /\ call[2].op = "status"
    /\ call[2].result.report.active_requests = 1
    /\ call[2].result.report.total_requests = 1
    /\ next_id = 1

(***************************************************************************)
(* Requests in flight at the same time                                     *)
(***************************************************************************)
\* a step of the process_user_query call of p, and the request id of that call
QueryStep(p) ==
    /\ call'[p] /= call[p]
    /\ call[p].op = "query" \/ call'[p].op = "query"

OwnId(p) == IF call[p].op = "query" THEN call[p].request_id ELSE call'[p].request_id

\* request_history' is request_history with one entry for request_id appended
AppendsEntryOf(request_id) ==
    /\ Len(request_history') = Len(request_history) + 1
    /\ SubSeq(request_history', 1, Len(request_history)) = request_history
    /\ request_history'[Len(request_history')].request_id = request_id

\* the step sets the status of the record of request_id to completed
Completes(request_id) ==
    /\ request_id \in DOMAIN active_requests /\ request_id \in DOMAIN active_requests'
    /\ active_requests[request_id].status /= "completed"
    /\ active_requests'[request_id].status = "completed"

\* C24: with several process_user_query calls in flight and their suspension
\* points interleaved in any order, each step of a call writes only the
\* active-request entry of its own request_id and appends only its own
\* history entry, when it completes its record; no other request's entry is
\* changed or removed by it; the ids in the history are distinct, and a call
\* that has returned has exactly one history entry if it returned the success
\* envelope and none otherwise.
C24_CallsWriteOwnEntriesOnly ==
    /\ [](\A i, j \in 1..Len(request_history) :
            request_history[i].request_id = request_history[j].request_id => i = j)
    /\ [](\A p \in Procs :
            FinishedQuery(call[p]) =>
               Cardinality(HistoryEntriesOf(call[p].request_id)) =
                  (IF call[p].result.kind = "envelope"
                      /\ call[p].result.envelope.status = "success"
                   THEN 1 ELSE 0))
    /\ [][\A p \in Procs :
            QueryStep(p) =>
               /\ \A id \in DOMAIN active_requests \ {OwnId(p)} :
                     /\ id \in DOMAIN active_requests'
                     /\ active_requests'[id] = active_requests[id]
               /\ DOMAIN active_requests' \subseteq DOMAIN active_requests \cup {OwnId(p)}
               /\ request_history' = request_history \/ AppendsEntryOf(OwnId(p))
               /\ AppendsEntryOf(OwnId(p)) <=> Completes(OwnId(p))]_vars

\* two calls were in flight together: the second started after the first and
\* completed before it, and both have their record and their history entry
C24_Witness ==
    /\ FinishedQuery(call[1]) /\ FinishedQuery(call[2])
    /\ call[1].request_id = 1 /\ call[2].request_id = 2
    /\ Len(request_history) = 2
    /\ request_history[1].request_id = 2 /\ request_history[2].request_id = 1
    /\ DOMAIN active_requests = {1, 2}
    /\ active_requests[1].status = "completed" /\ active_requests[2].status = "completed"

\* C27: as long as shutdown has not run, every entry of the request history
\* has a request_id that is a key of the active-request map, with status
\* completed; no entry is removed from the active-request map when a request
\* finishes, so the number of its entries never decreases, and it is at least
\* the length of the history.
C27_HistoryWithinActiveRequests ==
    /\ [](\A i \in 1..Len(request_history) :
            /\ request_history[i].request_id \in DOMAIN active_requests
            /\ active_requests[request_history[i].request_id].status = "completed")
    /\ [](Cardinality(DOMAIN active_requests) >= Len(request_history))
    /\ [][/\ DOMAIN active_requests \subseteq DOMAIN active_requests'
          /\ Cardinality(DOMAIN active_requests') >= Cardinality(DOMAIN active_requests)]_vars

\* two requests have completed and returned and one has ended in the error
\* envelope: three records are kept for a history of two entries
C27_Witness ==
    /\ \A p \in Procs : call[p].op = "idle"
    /\ Cardinality(DOMAIN active_requests) = 3
    /\ Len(request_history) = 2
    /\ \E id \in DOMAIN active_requests : active_requests[id].status = "error"

(***************************************************************************)
(* Start and end of the orchestrator's life                                *)
(***************************************************************************)
\* the process_user_query call of p has raised the 'not initialized' error
Refused(c) ==
    /\ c.op = "query" /\ c.pc = "done"
    /\ c.result = Raised(NotInitializedError)

\* C29: a process_user_query call made while initialized is false (before
\* initialize, after an initialize that failed, after shutdown) raises the
\* 'not initialized' error at once: it launches no responder invocation, gets
\* no request id, and leaves the active-request map, the request history and
\* the registry as they were.
C29_RefusedWhenNotInitialized ==
    /\ [](\A p \in Procs :
            Refused(call[p]) =>
               /\ call[p].tasks = <<>>
               /\ call[p].request_id = 0
               /\ ~call[p].coordinated)
    /\ [][\A p \in Procs :
            (~initialized /\ call[p].op = "idle" /\ call'[p].op = "query") =>
               /\ Refused(call'[p])
               /\ NotInitializedError.message = <<"Agent Orchestrator not initialized">>
               /\ UNCHANGED <<active_requests, request_history, next_id, agents,
                              initialized, running>>]_vars

\* a call has been refused after a shutdown and a failed initialize that left
\* two responders in the registry; the history of the earlier run is kept
C29_Witness ==
    /\ Refused(call[1])
    /\ ~initialized
    /\ agents = {"root", "data"}
    /\ request_history /= <<>>
    /\ active_requests = EmptyMap

\* a step of the shutdown call of p
ShutdownStep(p) ==
    /\ call'[p] /= call[p]
    /\ call[p].op = "shutdown" \/ call'[p].op = "shutdown"

\* the step in which the shutdown call of p ends
ShutdownEnds(p) ==
    /\ call[p].pc /= "done"
    /\ call'[p].op = "shutdown" /\ call'[p].pc = "done"

\* C30: shutdown calls the shutdown of every responder of the registry, in
\* registry order, also after the shutdown of an earlier responder raised:
\* the exception is swallowed and shutdown returns.  In the state in which
\* it returns the registry and the active-request map are empty and
\* initialized is false; no step of shutdown changes the request history.
C30_ShutdownCompletes ==
    /\ [](\A p \in Procs :
            (call[p].op = "shutdown" /\ call[p].pc = "done") =>
               /\ call[p].result = ReturnedNone
               /\ TaskRoles(call[p]) = call[p].agent_types
               /\ \A i \in 1..Len(call[p].tasks) :
                     call[p].tasks[i].st \in {"ok", "raise"})
    /\ [][\A p \in Procs :
            /\ ShutdownStep(p) => request_history' = request_history
            /\ (call[p].op = "idle" /\ call'[p].op = "shutdown") =>
                  call'[p].agent_types = RegistryOrder(agents)
            /\ ShutdownEnds(p) =>
                  /\ call'[p].agent_types = RegistryOrder(agents)
                  /\ agents' = {}
                  /\ active_requests' = EmptyMap
                  /\ ~initialized']_vars

\* shutdown has returned after the shutdown of the root and of the forecast
\* responder raised: the four responders were called; a request that got its
\* record while shutdown was waiting is still in flight, an earlier one is in
\* the history
C30_Witness ==
    /\ call[2].op = "shutdown" /\ call[2].pc = "done"
    /\ TaskRoles(call[2]) = AgentOrder
    /\ call[2].tasks[1].st = "raise" /\ call[2].tasks[3].st = "raise"
    /\ call[2].tasks[4].st = "ok"
    /\ agents = {} /\ active_requests = EmptyMap /\ ~initialized
    /\ Len(request_history) = 1
    /\ call[1].op = "query" /\ call[1].pc = "gather" /\ call[1].request_id = 2

(***************************************************************************)
(* Termination of a request                                                *)
(***************************************************************************)
\* the process_user_query call of p has its record and has not ended
InFlight(p) ==
    /\ call[p].op = "query" /\ call[p].request_id /= 0
    /\ call[p].pc /= "done"

\* the call has returned an envelope and its record is no longer processing
ReturnedSettled(p) ==
    /\ ReturnedEnvelope(call[p])
    /\ call[p].request_id \in DOMAIN active_requests
    /\ active_requests[call[p].request_id].status \in {"completed", "error"}

====
